---- MODULE Spec2Model ----
(***************************************************************************)
(* Model of the preprocessing pipeline of src/src/data/preprocess.py:      *)
(*   prepare_user_data  (RR -> bpm, dedup, 1 s resample, interpolate,      *)
(*                       left merge on the activity timeline)              *)
(*   window_features    (column check, sort, rolling statistics, ffill /   *)
(*                       bfill, fixed-bin aggregation)                     *)
(*   build_dataset      (per-user loop, sleep labelling, fatal paths)      *)
(*                                                                         *)
(* Timestamps are whole seconds counted from 2023-01-01 00:00:00 in        *)
(* window_features and build_dataset, milliseconds in prepare_user_data.   *)
(* Numeric cells are exact rationals or NaN.  A standard deviation is      *)
(* stored as its square (the sample variance, ddof = 1): the square root   *)
(* is injective on the non-negative rationals, so equality, zero and       *)
(* absence of a standard deviation are those of the stored variance.       *)
(***************************************************************************)
EXTENDS Integers, Sequences, FiniteSets, TLC

VARIABLES
    \* ---- window_features
    df,          \* the table passed to window_features
    sorted_df,   \* df after set_index("timestamp").sort_index()
    rolled,      \* df after the rolling columns were added
    filled,      \* df after ffill / bfill
    features,    \* the table returned
    wf_result,   \* "none" | "empty" | "raised" | "ok"
    wf_pc,       \* position inside window_features
    \* ---- build_dataset
    dirs,        \* user directories matching raw_dir.glob("user_*")
    pending,     \* directories the loop has not visited yet
    user_count,
    all_users,   \* list of per-user labelled feature tables
    loaded,      \* per user: what load_user_data returned
    sleep_file,  \* per user: what was found at <user>/sleep.csv
    full_df,     \* the persisted dataset, or "none"
    bd_pc,       \* "loop" | "done" | "fatal_no_dirs" | "fatal_no_valid"
    \* ---- prepare_user_data
    rr_df,       \* what load_rr_data returned
    act_df,      \* what load_actigraph_data returned
    rr_interp,   \* the per-second rate series
    merged,      \* the merged table written to <user>.csv
    pr_pc        \* "start" | "done"

wfVars == <<df, sorted_df, rolled, filled, features, wf_result, wf_pc>>
bdVars == <<dirs, pending, user_count, all_users, loaded, sleep_file, full_df, bd_pc>>
prVars == <<rr_df, act_df, rr_interp, merged, pr_pc>>
vars == <<wfVars, bdVars, prVars>>

(***************************************************************************)
(* Numeric cells                                                           *)
(***************************************************************************)
NaN == [nan |-> TRUE, n |-> 0, d |-> 1]

Abs(x) == IF x < 0 THEN -x ELSE x

RECURSIVE GCD(_, _)
GCD(a, b) == IF b = 0 THEN a ELSE GCD(b, a % b)

\* the rational n/d (d > 0) in lowest terms
Rat(n, d) == LET g == GCD(Abs(n), d) IN [nan |-> FALSE, n |-> n \div g, d |-> d \div g]

Num(k) == Rat(k, 1)

RAdd(a, b) == Rat(a.n * b.d + b.n * a.d, a.d * b.d)

RSub(a, b) == Rat(a.n * b.d - b.n * a.d, a.d * b.d)

RMul(a, b) == Rat(a.n * b.n, a.d * b.d)

RDivInt(a, k) == Rat(a.n, a.d * k)

Valid(s) == SelectSeq(s, LAMBDA c : ~c.nan)

RECURSIVE SumAll(_)
SumAll(s) == IF s = <<>> THEN Num(0) ELSE RAdd(Head(s), SumAll(Tail(s)))

RECURSIVE SumSq(_)
SumSq(s) == IF s = <<>> THEN Num(0) ELSE RAdd(RMul(Head(s), Head(s)), SumSq(Tail(s)))

\* pandas "sum": NaN skipped, 0 for no valid value (min_count = 0)
StatSum(s) == SumAll(Valid(s))

\* pandas "mean": NaN skipped, NaN for no valid value
StatMean(s) ==
    LET v == Valid(s)
    IN  IF Len(v) = 0 THEN NaN ELSE RDivInt(SumAll(v), Len(v))

\* pandas "std" (ddof = 1), as its square: NaN for fewer than two valid values
StatStd(s) ==
    LET v == Valid(s)
        k == Len(v)
        sm == SumAll(v)
    IN  IF k < 2 THEN NaN
        ELSE RDivInt(RSub(SumSq(v), RDivInt(RMul(sm, sm), k)), k - 1)

Column(rows, c) == [i \in 1..Len(rows) |-> rows[i][c]]

(***************************************************************************)
(* window_features                                                         *)
(***************************************************************************)
Freq == 60

windows == <<300, 900>>

expected_cols == {"HR", "Vector Magnitude", "Steps"}

hr_roll_mean(w) == IF w = 300 THEN "hr_roll_mean_300s" ELSE "hr_roll_mean_900s"

hr_roll_std(w) == IF w = 300 THEN "hr_roll_std_300s" ELSE "hr_roll_std_900s"

vm_roll_mean(w) == IF w = 300 THEN "vm_roll_mean_300s" ELSE "vm_roll_mean_900s"

RollCols ==
    UNION {{hr_roll_mean(windows[k]), hr_roll_std(windows[k]), vm_roll_mean(windows[k])} :
           k \in 1..Len(windows)}

\* line 44 with any() in place of all()
HasExpectedAny(cols) == \E c \in expected_cols : c \in cols

\* line 44: all(col in df.columns for col in expected_cols)
HasExpected(cols) == \A c \in expected_cols : c \in cols

IsSorted(rows) ==
    \A i \in 1..Len(rows) - 1 : rows[i]["timestamp"] <= rows[i + 1]["timestamp"]

\* sort_index(): the rows in ascending timestamp order; the default sort kind
\* is not stable, so rows of equal timestamp may come out in either order
SortIndex(rows) ==
    LET n == Len(rows)
        perms == {p \in [1..n -> 1..n] : \A i, j \in 1..n : i # j => p[i] # p[j]}
    IN  {s \in {[i \in 1..n |-> rows[p[i]]] : p \in perms} : IsSorted(s)}

\* a window that reaches one row past row i (what a centred window would do)
RollWindowLookAhead(rows, i, w) ==
    LET lo == CHOOSE j \in 1..i :
                  /\ rows[j]["timestamp"] > rows[i]["timestamp"] - w
                  /\ \A k \in 1..j - 1 : rows[k]["timestamp"] <= rows[i]["timestamp"] - w
        hi == IF i < Len(rows) THEN i + 1 ELSE i
    IN  SubSeq(rows, lo, hi)

\* rolling(window = w seconds, min_periods = 1) on a sorted time index: the
\* rows of the window of row i are start..i, start the first row whose
\* timestamp is later than timestamp(i) - w  (closed = "right")
RollWindow(rows, i, w) ==
    LET lo == CHOOSE j \in 1..i :
                  /\ rows[j]["timestamp"] > rows[i]["timestamp"] - w
                  /\ \A k \in 1..j - 1 : rows[k]["timestamp"] <= rows[i]["timestamp"] - w
    IN  SubSeq(rows, lo, i)

\* the window length a rolling column was computed with
WindowOf(c) ==
    windows[CHOOSE k \in 1..Len(windows) :
                c \in {hr_roll_mean(windows[k]), hr_roll_std(windows[k]), vm_roll_mean(windows[k])}]

\* lines 55-59: the value of rolling column c at row i
RollValue(rows, i, c) ==
    LET w == WindowOf(c)
        win == RollWindow(rows, i, w)
    IN  IF c = hr_roll_mean(w) THEN StatMean(Column(win, "HR"))
        ELSE IF c = hr_roll_std(w) THEN StatStd(Column(win, "HR"))
        ELSE StatMean(Column(win, "Vector Magnitude"))

AddRolling(rows) ==
    [i \in 1..Len(rows) |->
        [c \in (DOMAIN rows[i]) \cup RollCols |->
            IF c \in RollCols THEN RollValue(rows, i, c) ELSE rows[i][c]]]

\* a column with every absent cell replaced by the last present cell before
\* it; cells before the first present cell stay absent
RECURSIVE FfillFrom(_, _, _)
FfillFrom(col, i, last) ==
    IF i > Len(col) THEN <<>>
    ELSE LET v == IF col[i].nan THEN last ELSE col[i]
         IN  <<v>> \o FfillFrom(col, i + 1, v)

FfillCol(col) == FfillFrom(col, 1, NaN)

\* a column with every absent cell replaced by the first present cell after
\* it; cells after the last present cell stay absent
RECURSIVE BfillFrom(_, _, _)
BfillFrom(col, i, next) ==
    IF i < 1 THEN <<>>
    ELSE LET v == IF col[i].nan THEN next ELSE col[i]
         IN  BfillFrom(col, i - 1, v) \o <<v>>

\* the column left as it is (line 63 left out)
NoBfillCol(col) == col

BfillCol(col) == BfillFrom(col, Len(col), NaN)

\* the columns of the frame: everything except the index
DataCols(rows) == IF Len(rows) = 0 THEN {} ELSE (DOMAIN rows[1]) \ {"timestamp"}

\* df.ffill(inplace=True): every column of the frame
Ffill(rows) ==
    [i \in 1..Len(rows) |->
        [c \in DOMAIN rows[i] |->
            IF c \in DataCols(rows) THEN FfillCol(Column(rows, c))[i] ELSE rows[i][c]]]

\* df.bfill(inplace=True)
Bfill(rows) ==
    [i \in 1..Len(rows) |->
        [c \in DOMAIN rows[i] |->
            IF c \in DataCols(rows) THEN BfillCol(Column(rows, c))[i] ELSE rows[i][c]]]

\* resample(freq): left-closed, left-labelled bins anchored at midnight
BinOf(t) == (t \div Freq) * Freq

InBin(rows, b) == SelectSeq(rows, LAMBDA r : BinOf(r["timestamp"]) = b)

\* the labels of the bins that hold a sample (what a groupby on the bin, or a
\* dropna(how="all") after the resample, would keep)
BinLabelsOccupied(rows) ==
    LET occ == {BinOf(rows[i]["timestamp"]) : i \in 1..Len(rows)}
        RECURSIVE asc(_)
        asc(S) == IF S = {} THEN <<>>
                  ELSE LET m == CHOOSE x \in S : \A y \in S : x <= y
                       IN  <<m>> \o asc(S \ {m})
    IN  asc(occ)

\* the bin labels resample() emits: every bin from the first to the last
\* sample, occupied or not
BinLabels(rows) ==
    IF Len(rows) = 0 THEN <<>>
    ELSE LET first == BinOf(rows[1]["timestamp"])
             last == BinOf(rows[Len(rows)]["timestamp"])
         IN  [k \in 1..((last - first) \div Freq + 1) |-> first + (k - 1) * Freq]

\* "_".join(col).lower() for the rolling columns, all aggregated by "mean"
AggName(c) ==
    CASE c = "hr_roll_mean_300s" -> "hr_roll_mean_300s_mean"
      [] c = "hr_roll_std_300s" -> "hr_roll_std_300s_mean"
      [] c = "vm_roll_mean_300s" -> "vm_roll_mean_300s_mean"
      [] c = "hr_roll_mean_900s" -> "hr_roll_mean_900s_mean"
      [] c = "hr_roll_std_900s" -> "hr_roll_std_900s_mean"
      [] c = "vm_roll_mean_900s" -> "vm_roll_mean_900s_mean"

\* lines 67-83: agg_dict, resample(freq).agg, flattened names, user_id
Aggregate(rows, user_id) ==
    LET labels == BinLabels(rows)
    IN  [k \in 1..Len(labels) |->
            LET g == InBin(rows, labels[k])
                base == [timestamp |-> labels[k],
                         user_id |-> user_id,
                         hr_mean |-> StatMean(Column(g, "HR")),
                         hr_std |-> StatStd(Column(g, "HR")),
                         steps_sum |-> StatSum(Column(g, "Steps"))]
                vm == [c \in {"vector magnitude_mean", "vector magnitude_std"} |->
                         IF c = "vector magnitude_mean"
                         THEN StatMean(Column(g, "Vector Magnitude"))
                         ELSE StatStd(Column(g, "Vector Magnitude"))]
                \* the within-bin mean of a rolling column; for a rolling std
                \* the mean of square roots is kept as the list of its terms
                roll == [a \in {AggName(c) : c \in RollCols} |->
                           LET c == CHOOSE x \in RollCols : AggName(x) = a
                           IN  IF c \in {hr_roll_std(300), hr_roll_std(900)}
                               THEN [mean_of_roots |-> Valid(Column(g, c))]
                               ELSE StatMean(Column(g, c))]
            IN  [c \in (DOMAIN base) \cup (DOMAIN vm) \cup (DOMAIN roll) |->
                    IF c \in DOMAIN base THEN base[c]
                    ELSE IF c \in DOMAIN vm THEN vm[c]
                    ELSE roll[c]]]

(***************************************************************************)
(* window_features as a sequence of steps                                  *)
(***************************************************************************)
MaxRows == 3

AllCols == {"timestamp", "HR", "Vector Magnitude", "Steps", "extra"}

Timestamps == {0, 59, 300, 900}

SampleValues ==
    { [HR |-> Num(60), VM |-> Num(1), Steps |-> Num(3)],
      [HR |-> Num(62), VM |-> Num(3), Steps |-> NaN],
      [HR |-> NaN,     VM |-> Num(1), Steps |-> Num(1)] }

MkRow(t, v, cols) ==
    [c \in cols |->
        CASE c = "timestamp" -> t
          [] c = "HR" -> v.HR
          [] c = "Vector Magnitude" -> v.VM
          [] c = "Steps" -> v.Steps
          [] OTHER -> Num(7)]

RowsOver(cols) == {MkRow(t, v, cols) : t \in Timestamps, v \in SampleValues}

\* a table with exactly the index and the required columns has 1..MaxRows
\* rows, in any order; a table with fewer or more columns has one row (a
\* missing column is found before any row is read, an extra one is dropped
\* by the aggregation)
InputTables ==
    UNION {{[cols |-> cols, rows |-> r] :
              r \in UNION {[1..k -> RowsOver(cols)] :
                             k \in 1..(IF cols = {"timestamp"} \cup expected_cols
                                       THEN MaxRows ELSE 1)}} :
           cols \in SUBSET AllCols}

WFInit ==
    /\ df \in InputTables
    /\ sorted_df = <<>>
    /\ rolled = <<>>
    /\ filled = <<>>
    /\ features = <<>>
    /\ wf_result = "none"
    /\ wf_pc = "start"

WFIdle ==
    /\ df = [cols |-> {}, rows |-> <<>>]
    /\ sorted_df = <<>>
    /\ rolled = <<>>
    /\ filled = <<>>
    /\ features = <<>>
    /\ wf_result = "none"
    /\ wf_pc = "idle"

\* lines 43-46
CheckColumns ==
    /\ wf_pc = "start"
    /\ IF ~HasExpected(df.cols)
       THEN /\ wf_result' = "empty"
            /\ features' = <<>>
            /\ wf_pc' = "done"
       ELSE /\ wf_pc' = "index"
            /\ UNCHANGED <<wf_result, features>>
    /\ UNCHANGED <<df, sorted_df, rolled, filled>>
    /\ UNCHANGED <<bdVars, prVars>>

\* lines 48-49; df["timestamp"] of a table without that column is a KeyError
SetIndex ==
    /\ wf_pc = "index"
    /\ IF "timestamp" \notin df.cols
       THEN /\ wf_result' = "raised"
            /\ wf_pc' = "done"
            /\ UNCHANGED sorted_df
       ELSE /\ \E s \in SortIndex(df.rows) : sorted_df' = s
            /\ wf_pc' = "rolling"
            /\ UNCHANGED wf_result
    /\ UNCHANGED <<df, rolled, filled, features>>
    /\ UNCHANGED <<bdVars, prVars>>

\* lines 54-59; df['HR'] or df['Vector Magnitude'] of a table without it is a
\* KeyError
Rolling ==
    /\ wf_pc = "rolling"
    /\ IF ~({"HR", "Vector Magnitude"} \subseteq df.cols)
       THEN /\ wf_result' = "raised"
            /\ wf_pc' = "done"
            /\ UNCHANGED rolled
       ELSE /\ rolled' = AddRolling(sorted_df)
            /\ wf_pc' = "fill"
            /\ UNCHANGED wf_result
    /\ UNCHANGED <<df, sorted_df, filled, features>>
    /\ UNCHANGED <<bdVars, prVars>>

\* lines 62-63
FillGaps ==
    /\ wf_pc = "fill"
    /\ filled' = Bfill(Ffill(rolled))
    /\ wf_pc' = "aggregate"
    /\ UNCHANGED <<df, sorted_df, rolled, features, wf_result>>
    /\ UNCHANGED <<bdVars, prVars>>

\* lines 67-85; aggregating a column the table does not have is a KeyError
AggregateBins ==
    /\ wf_pc = "aggregate"
    /\ IF "Steps" \notin df.cols
       THEN /\ wf_result' = "raised"
            /\ UNCHANGED features
       ELSE /\ features' = Aggregate(filled, "user")
            /\ wf_result' = "ok"
    /\ wf_pc' = "done"
    /\ UNCHANGED <<df, sorted_df, rolled, filled>>
    /\ UNCHANGED <<bdVars, prVars>>

NextWF == CheckColumns \/ SetIndex \/ Rolling \/ FillGaps \/ AggregateBins

(***************************************************************************)
(* Properties of window_features                                           *)
(***************************************************************************)
Zero == [nan |-> FALSE, n |-> 0, d |-> 1]

\* the aggregation bins the input can touch
AllBins == {k * Freq : k \in 0..(900 \div Freq)}

\* an input sample falls in the half-open interval [b, b + Freq)
Occupied(b) ==
    \E i \in 1..Len(df.rows) :
        b <= df.rows[i]["timestamp"] /\ df.rows[i]["timestamp"] < b + Freq

RowsFor(b) == {k \in 1..Len(features) : features[k]["timestamp"] = b}

Returned == wf_pc = "done" /\ wf_result = "ok"

\* C5: window_features on a table that lacks one of HR, Vector Magnitude,
\* Steps never goes past the column check, never raises, and returns an
\* empty table, whatever other columns the table has or lacks.
C5_MissingSignalReturnsEmpty ==
    ~(expected_cols \subseteq df.cols) =>
        /\ wf_pc \in {"start", "done"}
        /\ wf_pc = "done" => (wf_result = "empty" /\ features = <<>>)

C5_Witness ==
    /\ wf_pc = "done"
    /\ wf_result = "empty"
    /\ "Steps" \notin df.cols
    /\ {"timestamp", "HR", "Vector Magnitude", "extra"} \subseteq df.cols

\* C6 as stated: exactly one output row for every bin that holds an input
\* sample, and no output row for a bin that holds none.
C6_OneRowPerOccupiedBin ==
    Returned =>
        \A b \in AllBins : Cardinality(RowsFor(b)) = (IF Occupied(b) THEN 1 ELSE 0)

\* C6 amended: exactly one output row for every bin from the first occupied
\* bin to the last occupied bin, occupied or not, and no row outside that
\* range; the row of an unoccupied bin has steps sum 0 and absent means.
C6_OneRowPerBinInRange ==
    Returned =>
        \A b \in AllBins :
            LET inRange == /\ \E lo \in AllBins : lo <= b /\ Occupied(lo)
                           /\ \E hi \in AllBins : b <= hi /\ Occupied(hi)
            IN  /\ Cardinality(RowsFor(b)) = (IF inRange THEN 1 ELSE 0)
                /\ (inRange /\ ~Occupied(b)) =>
                       \A k \in RowsFor(b) :
                           /\ features[k]["steps_sum"] = Zero
                           /\ features[k]["hr_mean"].nan
                           /\ features[k]["vector magnitude_mean"].nan

C6_Witness ==
    /\ Returned
    /\ \E k \in 1..Len(features) : ~Occupied(features[k]["timestamp"])
    /\ \E k \in 1..Len(features) : Occupied(features[k]["timestamp"])

\* the sum of the raw step counts of the input samples of bin b, a missing
\* count adding nothing
RECURSIVE RawSteps(_, _)
RawSteps(rows, b) ==
    IF rows = <<>> THEN 0
    ELSE LET r == Head(rows)
             here == /\ b <= r["timestamp"]
                     /\ r["timestamp"] < b + Freq
                     /\ ~r["Steps"].nan
         IN  (IF here THEN r["Steps"].n ELSE 0) + RawSteps(Tail(rows), b)

\* C7: the steps sum of every output bin is the sum of the raw step counts
\* of the input samples in [bin start, bin start + width), also when step
\* counts are missing in the input.
C7_StepsConservation ==
    Returned =>
        \A k \in 1..Len(features) :
            features[k]["steps_sum"] =
                [nan |-> FALSE, n |-> RawSteps(df.rows, features[k]["timestamp"]), d |-> 1]

\* every input sample has the same, present, heart rate and the same,
\* present, vector magnitude
ConstantInput ==
    /\ \A i \in 1..Len(df.rows) : ~df.rows[i]["HR"].nan /\ ~df.rows[i]["Vector Magnitude"].nan
    /\ \A i, j \in 1..Len(df.rows) :
           /\ df.rows[i]["HR"] = df.rows[j]["HR"]
           /\ df.rows[i]["Vector Magnitude"] = df.rows[j]["Vector Magnitude"]

\* two different input samples lie less than w seconds apart
TwoWithin(w) ==
    \E i, j \in 1..Len(df.rows) :
        /\ i # j
        /\ Abs(df.rows[i]["timestamp"] - df.rows[j]["timestamp"]) < w

\* C8 as stated: for a constant input of any length, after gap filling the
\* rolling means are the constant and the rolling standard deviation is zero
\* at every position, for both window lengths.
C8_ConstantSignal ==
    (wf_pc = "aggregate" /\ ConstantInput) =>
        \A i \in 1..Len(filled) : \A k \in 1..Len(windows) :
            /\ filled[i][hr_roll_mean(windows[k])] = df.rows[1]["HR"]
            /\ filled[i][vm_roll_mean(windows[k])] = df.rows[1]["Vector Magnitude"]
            /\ filled[i][hr_roll_std(windows[k])] = Zero

\* C8 amended: for a constant input, after gap filling the rolling means are
\* the constant at every position; the rolling standard deviation of window
\* length w is zero at every position when two samples lie less than w
\* seconds apart, and absent at every position otherwise (always so for a
\* single sample).
C8_ConstantSignalAmended ==
    (wf_pc = "aggregate" /\ ConstantInput) =>
        \A i \in 1..Len(filled) : \A k \in 1..Len(windows) :
            /\ filled[i][hr_roll_mean(windows[k])] = df.rows[1]["HR"]
            /\ filled[i][vm_roll_mean(windows[k])] = df.rows[1]["Vector Magnitude"]
            /\ filled[i][hr_roll_std(windows[k])] =
                   (IF TwoWithin(windows[k]) THEN Zero ELSE NaN)

C8_Witness ==
    /\ wf_pc = "aggregate"
    /\ ConstantInput
    /\ Len(filled) = MaxRows
    /\ TwoWithin(900)
    /\ ~TwoWithin(300)
    /\ rolled[1][hr_roll_std(900)].nan
    /\ filled[1][hr_roll_std(900)] = Zero

\* s with row x put at position p
InsertAt(s, p, x) == SubSeq(s, 1, p - 1) \o <<x>> \o SubSeq(s, p, Len(s))

\* the sorted tables that are s plus one more sample, as <<position, table>>
OneMore(s) ==
    {pe \in {<<p, InsertAt(s, p, x)>> : p \in 1..(Len(s) + 1), x \in RowsOver(df.cols)} :
        IsSorted(pe[2])}

\* the rows of s that are earlier than the sample added at position pe[1]
EarlierRows(s, pe) ==
    {i \in 1..(pe[1] - 1) : s[i]["timestamp"] < pe[2][pe[1]]["timestamp"]}

\* column c of Bfill(Ffill(AddRolling(s)))
FilledColumn(s, c) == BfillCol(FfillCol([j \in 1..Len(s) |-> RollValue(s, j, c)]))

\* the samples at or before row i that are less than w seconds older than it
Trailing(s, i, w) ==
    SelectSeq(SubSeq(s, 1, i), LAMBDA r : r["timestamp"] > s[i]["timestamp"] - w)

\* C10 as stated: after ffill and bfill every rolling value is defined at the
\* first sample, and the value at a sample does not change when a sample
\* later than it is added to the input.
C10_StrictlyCausal ==
    wf_pc = "aggregate" =>
        \A c \in RollCols :
            /\ ~filled[1][c].nan
            /\ \A pe \in OneMore(sorted_df) :
                   \A more \in {FilledColumn(pe[2], c)} :
                       \A i \in EarlierRows(sorted_df, pe) : more[i] = filled[i][c]

\* C10 amended: the rolling values as computed, before gap filling, are
\* strictly causal: each is the statistic of the samples at or before its own
\* sample that are less than the window length older, and the rolling means
\* are defined wherever that window holds a present value.  After gap
\* filling, a position at or after the first defined value of its column
\* holds the last defined value at or before it (never a later sample's, but
\* possibly one older than the window); a position before the first defined
\* value (always the first sample of a rolling standard deviation) holds the
\* first later defined value, and stays absent when the column has none.
C10_CausalExceptLeadingGaps ==
    /\ wf_pc \in {"fill", "aggregate"} =>
           \A i \in 1..Len(rolled) : \A k \in 1..Len(windows) :
               LET w == windows[k]
                   win == Trailing(sorted_df, i, w)
               IN  /\ rolled[i][hr_roll_mean(w)] = StatMean(Column(win, "HR"))
                   /\ rolled[i][hr_roll_std(w)] = StatStd(Column(win, "HR"))
                   /\ rolled[i][vm_roll_mean(w)] = StatMean(Column(win, "Vector Magnitude"))
                   /\ rolled[i][hr_roll_mean(w)].nan = (Valid(Column(win, "HR")) = <<>>)
                   /\ rolled[1][hr_roll_std(w)].nan
    /\ wf_pc = "aggregate" =>
           \A i \in 1..Len(filled) : \A c \in RollCols :
               LET before == {j \in 1..i : ~rolled[j][c].nan}
                   after == {j \in i..Len(rolled) : ~rolled[j][c].nan}
               IN  IF before # {}
                   THEN filled[i][c] =
                            rolled[CHOOSE j \in before : \A m \in before : m <= j][c]
                   ELSE IF after # {}
                   THEN filled[i][c] =
                            rolled[CHOOSE j \in after : \A m \in after : j <= m][c]
                   ELSE filled[i][c].nan

C10_Witness ==
    /\ wf_pc = "aggregate"
    /\ \E c \in RollCols : rolled[1][c].nan /\ ~filled[1][c].nan
    /\ \E c \in RollCols : \E i \in 2..Len(rolled) :
           /\ rolled[i][c].nan
           /\ ~rolled[i - 1][c].nan
           /\ filled[i][c] = rolled[i - 1][c]

(***************************************************************************)
(* build_dataset                                                           *)
(***************************************************************************)
NumUsers == 2

MaxIntervals == 2

\* the directories user_1 .. user_<NumUsers> may exist under raw_dir
Users == 1..NumUsers

Unread == [kind |-> "unread"]

\* what load_user_data can return: None, an empty table, a table without
\* the Steps column, or a table with every column
LoadResults ==
    LET cols == {"timestamp"} \cup expected_cols
        v == CHOOSE x \in SampleValues : x.Steps = Num(3)
        m == CHOOSE x \in SampleValues : x.Steps.nan
    IN  { [kind |-> "none", cols |-> {}, rows |-> <<>>],
          [kind |-> "table", cols |-> cols, rows |-> <<>>],
          [kind |-> "table", cols |-> cols \ {"Steps"},
           rows |-> <<MkRow(0, v, cols \ {"Steps"})>>],
          [kind |-> "table", cols |-> cols,
           rows |-> <<MkRow(300, v, cols), MkRow(59, m, cols)>>],
          [kind |-> "table", cols |-> cols, rows |-> <<MkRow(900, v, cols)>>] }

\* a row of sleep.csv: day digits and "HH:MM" times, as <<hours, minutes>>
SleepRows ==
    { [InBedDate |-> 1, InBedTime |-> <<0, 1>>, OutBedDate |-> 1, OutBedTime |-> <<0, 5>>],
      [InBedDate |-> 1, InBedTime |-> <<0, 5>>, OutBedDate |-> 2, OutBedTime |-> <<0, 0>>] }

\* sleep.csv is missing, or holds 0..MaxIntervals rows in any order
SleepFiles ==
    {[exists |-> FALSE, rows |-> <<>>]}
    \cup {[exists |-> TRUE, rows |-> r] : r \in UNION {[1..k -> SleepRows] : k \in 0..MaxIntervals}}

\* lines 125-126: pd.to_datetime("2023-01-0" + date + " " + time), in seconds
\* from 2023-01-01 00:00:00
ToDatetime(date, time) == (date - 1) * (24 * 3600) + time[1] * 3600 + time[2] * 60

\* line 130 with ts < end in place of ts <= end
IsSleepingOpenEnd(ts, rows) ==
    \E j \in 1..Len(rows) :
        /\ ts >= ToDatetime(rows[j].InBedDate, rows[j].InBedTime)
        /\ ts < ToDatetime(rows[j].OutBedDate, rows[j].OutBedTime)

\* line 130: any((ts >= start) & (ts <= end) for start, end in zip(...))
IsSleeping(ts, rows) ==
    \E j \in 1..Len(rows) :
        /\ ts >= ToDatetime(rows[j].InBedDate, rows[j].InBedTime)
        /\ ts <= ToDatetime(rows[j].OutBedDate, rows[j].OutBedTime)

WithLabel(feats, label) ==
    [k \in 1..Len(feats) |->
        [c \in (DOMAIN feats[k]) \cup {"is_sleeping"} |->
            IF c = "is_sleeping" THEN label[k] ELSE feats[k][c]]]

\* window_features(df, user_id), for the order s that sort_index() gives
WindowFeaturesOf(table, s, user_id) ==
    IF ~HasExpected(table.cols)
    THEN [result |-> "empty", features |-> <<>>]
    ELSE IF ~(({"timestamp"} \cup expected_cols) \subseteq table.cols)
    THEN [result |-> "raised", features |-> <<>>]
    ELSE [result |-> "ok", features |-> Aggregate(Bfill(Ffill(AddRolling(s))), user_id)]

\* line 109: df is None or df.empty
NoData(d) == d.kind = "none" \/ Len(d.rows) = 0 \/ d.cols = {}

BDInit ==
    /\ dirs \in SUBSET Users
    /\ pending = dirs
    /\ user_count = 0
    /\ all_users = <<>>
    /\ loaded = [u \in Users |-> Unread]
    /\ sleep_file = [u \in Users |-> Unread]
    /\ full_df = [saved |-> FALSE, rows |-> <<>>]
    /\ bd_pc = "loop"

Visit(u) ==
    /\ bd_pc = "loop"
    /\ u \in pending
    /\ pending' = pending \ {u}
    /\ user_count' = user_count + 1

\* lines 108-111
SkipNoData(u) ==
    /\ Visit(u)
    /\ \E d \in LoadResults :
           /\ NoData(d)
           /\ loaded' = [loaded EXCEPT ![u] = d]
    /\ UNCHANGED <<dirs, all_users, sleep_file, full_df, bd_pc>>
    /\ UNCHANGED <<wfVars, prVars>>

\* lines 114-116 with break in place of continue
SkipNoFeaturesBreak(u) ==
    /\ bd_pc = "loop"
    /\ u \in pending
    /\ pending' = {}
    /\ user_count' = user_count + 1
    /\ \E d \in LoadResults :
           /\ ~NoData(d)
           /\ WindowFeaturesOf(d, d.rows, u).result = "empty"
           /\ loaded' = [loaded EXCEPT ![u] = d]
    /\ UNCHANGED <<dirs, all_users, sleep_file, full_df, bd_pc>>
    /\ UNCHANGED <<wfVars, prVars>>

\* lines 113-116; an exception of window_features ends the run
SkipNoFeatures(u) ==
    /\ Visit(u)
    /\ \E d \in LoadResults :
           /\ ~NoData(d)
           /\ LET f == WindowFeaturesOf(d, d.rows, u)
              IN  /\ f.result # "ok"
                  /\ bd_pc' = IF f.result = "raised" THEN "raised" ELSE bd_pc
           /\ loaded' = [loaded EXCEPT ![u] = d]
    /\ UNCHANGED <<dirs, all_users, sleep_file, full_df>>
    /\ UNCHANGED <<wfVars, prVars>>

\* lines 113-131, 136: features generated, sleep.csv exists
AddLabelled(u) ==
    /\ Visit(u)
    /\ \E d \in LoadResults :
           /\ ~NoData(d)
           /\ loaded' = [loaded EXCEPT ![u] = d]
           /\ \E s \in SortIndex(d.rows) : \E f \in {WindowFeaturesOf(d, s, u)} :
                  /\ f.result = "ok"
                  /\ Len(f.features) > 0
                  /\ \E sf \in SleepFiles :
                         /\ sf.exists
                         /\ sleep_file' = [sleep_file EXCEPT ![u] = sf]
                         /\ all_users' =
                                Append(all_users,
                                       WithLabel(f.features,
                                                 [k \in 1..Len(f.features) |->
                                                     IsSleeping(f.features[k]["timestamp"],
                                                                sf.rows)]))
    /\ UNCHANGED <<dirs, full_df, bd_pc>>
    /\ UNCHANGED <<wfVars, prVars>>

\* lines 132-134 with continue in place of the default label
AddUnlabelledSkip(u) ==
    /\ Visit(u)
    /\ \E d \in LoadResults : \E sf \in SleepFiles :
           /\ ~NoData(d)
           /\ ~sf.exists
           /\ WindowFeaturesOf(d, d.rows, u).result = "ok"
           /\ loaded' = [loaded EXCEPT ![u] = d]
           /\ sleep_file' = [sleep_file EXCEPT ![u] = sf]
    /\ UNCHANGED <<dirs, all_users, full_df, bd_pc>>
    /\ UNCHANGED <<wfVars, prVars>>

\* lines 113-121, 132-136: features generated, sleep.csv missing
AddUnlabelled(u) ==
    /\ Visit(u)
    /\ \E d \in LoadResults :
           /\ ~NoData(d)
           /\ loaded' = [loaded EXCEPT ![u] = d]
           /\ \E s \in SortIndex(d.rows) : \E f \in {WindowFeaturesOf(d, s, u)} :
                  /\ f.result = "ok"
                  /\ Len(f.features) > 0
                  /\ \E sf \in SleepFiles :
                         /\ ~sf.exists
                         /\ sleep_file' = [sleep_file EXCEPT ![u] = sf]
                         /\ all_users' =
                                Append(all_users,
                                       WithLabel(f.features,
                                                 [k \in 1..Len(f.features) |-> FALSE]))
    /\ UNCHANGED <<dirs, full_df, bd_pc>>
    /\ UNCHANGED <<wfVars, prVars>>

\* line 142 with a test that never holds
NoValidUsersNever(tables) == Len(tables) < 0

\* line 142: len(all_users) == 0
NoValidUsers(tables) == Len(tables) = 0

\* lines 139-140
FailNoDirs ==
    /\ bd_pc = "loop"
    /\ pending = {}
    /\ user_count = 0
    /\ bd_pc' = "fatal_no_dirs"
    /\ UNCHANGED <<dirs, pending, user_count, all_users, loaded, sleep_file, full_df>>
    /\ UNCHANGED <<wfVars, prVars>>

\* lines 142-143
FailNoValid ==
    /\ bd_pc = "loop"
    /\ pending = {}
    /\ user_count # 0
    /\ NoValidUsers(all_users)
    /\ bd_pc' = "fatal_no_valid"
    /\ UNCHANGED <<dirs, pending, user_count, all_users, loaded, sleep_file, full_df>>
    /\ UNCHANGED <<wfVars, prVars>>

RECURSIVE Concat(_)
Concat(tables) == IF tables = <<>> THEN <<>> ELSE Head(tables) \o Concat(Tail(tables))

\* lines 146-150: pd.concat(all_users, ignore_index=True), to_csv
Save ==
    /\ bd_pc = "loop"
    /\ pending = {}
    /\ user_count # 0
    /\ ~NoValidUsers(all_users)
    /\ full_df' = [saved |-> TRUE, rows |-> Concat(all_users)]
    /\ bd_pc' = "done"
    /\ UNCHANGED <<dirs, pending, user_count, all_users, loaded, sleep_file>>
    /\ UNCHANGED <<wfVars, prVars>>

NextBuild ==
    \/ \E u \in Users : SkipNoData(u)
    \/ \E u \in Users : SkipNoFeatures(u)
    \/ \E u \in Users : AddLabelled(u)
    \/ \E u \in Users : AddUnlabelled(u)
    \/ FailNoDirs
    \/ FailNoValid
    \/ Save

(***************************************************************************)
(* Properties of build_dataset                                             *)
(***************************************************************************)
\* the tables of all_users that belong to user u
TablesOf(u) == {k \in 1..Len(all_users) : all_users[k][1]["user_id"] = u}

\* the rows of the persisted dataset that belong to user u
SavedRowsOf(u) == {k \in 1..Len(full_df.rows) : full_df.rows[k]["user_id"] = u}

\* the loop has visited u
Visited(u) == u \in dirs /\ loaded[u] # Unread

\* u's loaded data is absent or empty, or lacks a required signal column (the
\* only way a non-empty table yields an empty feature result)
SoftFailure(u) ==
    \/ loaded[u].kind = "none"
    \/ loaded[u].rows = <<>>
    \/ ~(expected_cols \subseteq loaded[u].cols)

\* the start of every aggregation bin from the one of the earliest sample of
\* table d to the one of its latest sample
WindowsOf(d) ==
    {b \in AllBins :
        /\ \E i \in 1..Len(d.rows) : b <= d.rows[i]["timestamp"]
        /\ \E j \in 1..Len(d.rows) : d.rows[j]["timestamp"] < b + Freq}

\* the sleep interval of a row of sleep.csv, in seconds from 2023-01-01 00:00
IntervalStart(r) == (r.InBedDate - 1) * 86400 + r.InBedTime[1] * 3600 + r.InBedTime[2] * 60

IntervalEnd(r) == (r.OutBedDate - 1) * 86400 + r.OutBedTime[1] * 3600 + r.OutBedTime[2] * 60

InSomeInterval(t, rows) ==
    \E j \in 1..Len(rows) : IntervalStart(rows[j]) <= t /\ t <= IntervalEnd(rows[j])

HasSleepFile(u) == sleep_file[u] # Unread /\ sleep_file[u].exists

LacksSleepFile(u) == sleep_file[u] # Unread /\ ~sleep_file[u].exists

\* C1: for a user that has a sleep-session file, a feature window with
\* timestamp t is labelled is_sleeping exactly when some interval of that
\* file has start <= t <= end, in the per-user table and in the persisted
\* dataset, for any number and order of intervals.
C1_LabelIffInSomeInterval ==
    /\ \A k \in 1..Len(all_users) : \A i \in 1..Len(all_users[k]) :
           LET r == all_users[k][i]
           IN  HasSleepFile(r["user_id"]) =>
                   r["is_sleeping"] = InSomeInterval(r["timestamp"], sleep_file[r["user_id"]].rows)
    /\ \A i \in 1..Len(full_df.rows) :
           LET r == full_df.rows[i]
           IN  HasSleepFile(r["user_id"]) =>
                   r["is_sleeping"] = InSomeInterval(r["timestamp"], sleep_file[r["user_id"]].rows)

C1_Witness ==
    \E u \in Users :
        /\ HasSleepFile(u)
        /\ Len(sleep_file[u].rows) = 2
        /\ IntervalStart(sleep_file[u].rows[1]) > IntervalStart(sleep_file[u].rows[2])
        /\ IntervalStart(sleep_file[u].rows[1]) <= IntervalEnd(sleep_file[u].rows[2])
        /\ \E k \in TablesOf(u) :
               /\ \E i \in 1..Len(all_users[k]) : ~all_users[k][i]["is_sleeping"]
               /\ \E i \in 1..Len(all_users[k]) :
                      /\ all_users[k][i]["is_sleeping"]
                      /\ all_users[k][i]["timestamp"] = IntervalEnd(sleep_file[u].rows[2])
               /\ \E i \in 1..Len(all_users[k]) :
                      /\ all_users[k][i]["is_sleeping"]
                      /\ all_users[k][i]["timestamp"] = IntervalStart(sleep_file[u].rows[2])

\* C2: a user whose features were generated and whose sleep-session file is
\* missing is not skipped and raises nothing: every feature window of that
\* user is in all_users, and in the persisted dataset, with is_sleeping
\* false, and the rows of the users that have a file keep the labels of
\* their own intervals.
C2_MissingSleepFileAllFalse ==
    \A u \in Users :
        LacksSleepFile(u) =>
            /\ bd_pc # "raised"
            /\ Cardinality(TablesOf(u)) = 1
            /\ \A k \in TablesOf(u) :
                   /\ {all_users[k][i]["timestamp"] : i \in 1..Len(all_users[k])}
                          = WindowsOf(loaded[u])
                   /\ Len(all_users[k]) = Cardinality(WindowsOf(loaded[u]))
                   /\ \A i \in 1..Len(all_users[k]) : all_users[k][i]["is_sleeping"] = FALSE
            /\ bd_pc \notin {"loop", "idle"} =>
                   /\ bd_pc = "done"
                   /\ Cardinality(SavedRowsOf(u)) = Cardinality(WindowsOf(loaded[u]))
                   /\ \A i \in SavedRowsOf(u) : full_df.rows[i]["is_sleeping"] = FALSE
            /\ \A v \in Users \ {u} : HasSleepFile(v) =>
                   \A k \in TablesOf(v) : \A i \in 1..Len(all_users[k]) :
                       all_users[k][i]["is_sleeping"] =
                           InSomeInterval(all_users[k][i]["timestamp"], sleep_file[v].rows)

C2_Witness ==
    /\ bd_pc = "done"
    /\ \E u, v \in Users :
           /\ LacksSleepFile(u)
           /\ HasSleepFile(v)
           /\ Cardinality(SavedRowsOf(u)) > 1
           /\ \E i \in SavedRowsOf(v) : full_df.rows[i]["is_sleeping"]

\* the discovered users whose feature table survives
Survivors == {u \in dirs : Visited(u) /\ ~SoftFailure(u)}

\* C3: once build_dataset has ended, every discovered user was visited; if
\* no feature table survived (no user_* directory, or every user skipped)
\* it ended in a fatal error and persisted nothing; if at least one
\* survived it completed and persisted the dataset.  Nothing is persisted
\* before the end.
C3_FatalIffNoSurvivor ==
    /\ bd_pc = "loop" => ~full_df.saved
    /\ bd_pc \notin {"loop", "idle"} =>
           /\ \A u \in dirs : Visited(u)
           /\ IF Survivors = {}
              THEN /\ bd_pc = (IF dirs = {} THEN "fatal_no_dirs" ELSE "fatal_no_valid")
                   /\ ~full_df.saved
                   /\ full_df.rows = <<>>
              ELSE /\ bd_pc = "done"
                   /\ full_df.saved
                   /\ full_df.rows # <<>>

C3_Witness ==
    /\ bd_pc = "fatal_no_valid"
    /\ Cardinality(dirs) = NumUsers
    /\ \E u \in dirs : loaded[u].kind = "none"
    /\ \E u \in dirs : loaded[u].kind = "table" /\ loaded[u].rows # <<>>

\* C4: a per-user soft failure never ends the run and excludes exactly that
\* user: the run ends only after every discovered user was visited, a
\* visited user that failed softly has no table and no row in the dataset,
\* and every other visited user has exactly one table, holding every one of
\* its feature windows, all of them persisted when the run completes.
C4_SoftFailureExcludesOnlyThatUser ==
    /\ bd_pc # "raised"
    /\ bd_pc \notin {"loop", "idle"} => \A u \in dirs : Visited(u)
    /\ \A u \in dirs :
           Visited(u) =>
               IF SoftFailure(u)
               THEN TablesOf(u) = {} /\ SavedRowsOf(u) = {}
               ELSE /\ Cardinality(TablesOf(u)) = 1
                    /\ \A k \in TablesOf(u) :
                           /\ {all_users[k][i]["timestamp"] : i \in 1..Len(all_users[k])}
                                  = WindowsOf(loaded[u])
                           /\ Len(all_users[k]) = Cardinality(WindowsOf(loaded[u]))
                    /\ bd_pc = "done" =>
                           /\ {full_df.rows[i]["timestamp"] : i \in SavedRowsOf(u)}
                                  = WindowsOf(loaded[u])
                           /\ Cardinality(SavedRowsOf(u)) = Cardinality(WindowsOf(loaded[u]))

C4_Witness ==
    /\ bd_pc = "done"
    /\ \E u, v \in dirs :
           /\ loaded[u].kind = "table"
           /\ loaded[u].rows # <<>>
           /\ SoftFailure(u)
           /\ ~SoftFailure(v)
           /\ SavedRowsOf(u) = {}
           /\ SavedRowsOf(v) # {}

(***************************************************************************)
(* prepare_user_data; its timestamps are in milliseconds                   *)
(***************************************************************************)
MaxRR == 3

MaxAct == 2

\* what load_rr_data can return: 1..MaxRR rows (timestamp, ibi_s), any order
RRRows == {[timestamp |-> t, ibi_s |-> i] : t \in {0, 500, 3000}, i \in {Rat(1, 2), Rat(3, 4)}}

RRTables == UNION {[1..k -> RRRows] : k \in 1..MaxRR}

\* what load_actigraph_data can return: 1..MaxAct rows, any order
ActRows ==
    {MkRow(t, CHOOSE v \in SampleValues : v.Steps = Num(3), {"timestamp"} \cup expected_cols) :
        t \in {0, 500, 2000, 4000}}

ActTables == UNION {[1..k -> ActRows] : k \in 1..MaxAct}

\* line 25: rr_df["bpm"] = 60 / rr_df["ibi_s"]
WithBpm(rows) ==
    [i \in 1..Len(rows) |->
        [timestamp |-> rows[i].timestamp,
         ibi_s |-> rows[i].ibi_s,
         bpm |-> Rat(60 * rows[i].ibi_s.d, rows[i].ibi_s.n)]]

\* line 27 with keep="last"
RECURSIVE KeepLastFrom(_, _)
KeepLastFrom(rows, i) ==
    IF i > Len(rows) THEN <<>>
    ELSE IF \E j \in (i + 1)..Len(rows) : rows[j].timestamp = rows[i].timestamp
    THEN KeepLastFrom(rows, i + 1)
    ELSE <<rows[i]>> \o KeepLastFrom(rows, i + 1)

KeepLast(rows) == KeepLastFrom(rows, 1)

\* line 27: rr_df[~rr_df.index.duplicated(keep="first")]
RECURSIVE KeepFirstFrom(_, _)
KeepFirstFrom(rows, i) ==
    IF i > Len(rows) THEN <<>>
    ELSE IF \E j \in 1..(i - 1) : rows[j].timestamp = rows[i].timestamp
    THEN KeepFirstFrom(rows, i + 1)
    ELSE <<rows[i]>> \o KeepFirstFrom(rows, i + 1)

KeepFirst(rows) == KeepFirstFrom(rows, 1)

\* the start of the 1 s bin of timestamp t
SecondOf(t) == (t \div 1000) * 1000

\* line 28: resample("1s").mean(): one row per second from the second of the
\* earliest sample to the second of the latest, the mean of the rates of
\* that second, NaN for a second without sample
Resample1s(rows) ==
    IF Len(rows) = 0 THEN <<>>
    ELSE LET secs == {SecondOf(rows[i].timestamp) : i \in 1..Len(rows)}
             first == CHOOSE x \in secs : \A y \in secs : x <= y
             last == CHOOSE x \in secs : \A y \in secs : y <= x
         IN  [k \in 1..((last - first) \div 1000 + 1) |->
                 LET g == first + (k - 1) * 1000
                     here == SelectSeq(rows, LAMBDA r : SecondOf(r.timestamp) = g)
                 IN  [timestamp |-> g, bpm |-> StatMean(Column(here, "bpm"))]]

\* line 28: interpolate(): linear between the present neighbours of a gap;
\* a gap after the last present value takes that value, a gap before the
\* first present value stays absent
Interpolate(rows) ==
    [k \in 1..Len(rows) |->
        LET before == {j \in 1..k : ~rows[j].bpm.nan}
            after == {j \in k..Len(rows) : ~rows[j].bpm.nan}
        IN  [timestamp |-> rows[k].timestamp,
             bpm |->
                IF before = {} THEN NaN
                ELSE LET p == CHOOSE j \in before : \A m \in before : m <= j
                     IN  IF after = {} \/ p = k THEN rows[p].bpm
                         ELSE LET q == CHOOSE j \in after : \A m \in after : j <= m
                              IN  RAdd(rows[p].bpm,
                                       RDivInt(RMul(RSub(rows[q].bpm, rows[p].bpm),
                                                    Num(k - p)),
                                               q - p))]]

\* line 31 as a backward as-of join: a row takes the rate of the latest
\* second at or before its timestamp
MergeAsof(left, right) ==
    [i \in 1..Len(left) |->
        LET match == {j \in 1..Len(right) : right[j].timestamp <= left[i]["timestamp"]}
        IN  [c \in (DOMAIN left[i]) \cup {"bpm"} |->
                IF c # "bpm" THEN left[i][c]
                ELSE IF match = {} THEN NaN
                ELSE right[CHOOSE j \in match : \A m \in match : m <= j].bpm]]

\* line 31: pd.merge(act_df, rr_interp, on="timestamp", how="left")
MergeLeft(left, right) ==
    [i \in 1..Len(left) |->
        LET match == {j \in 1..Len(right) : right[j].timestamp = left[i]["timestamp"]}
        IN  [c \in (DOMAIN left[i]) \cup {"bpm"} |->
                IF c # "bpm" THEN left[i][c]
                ELSE IF match = {} THEN NaN
                ELSE right[CHOOSE j \in match : TRUE].bpm]]

PRInit ==
    /\ rr_df \in RRTables
    /\ act_df \in ActTables
    /\ rr_interp = <<>>
    /\ merged = <<>>
    /\ pr_pc = "start"

\* lines 21-34
PrepareUserData ==
    /\ pr_pc = "start"
    /\ rr_interp' = Interpolate(Resample1s(KeepFirst(WithBpm(rr_df))))
    /\ merged' = MergeLeft(act_df, rr_interp')
    /\ pr_pc' = "done"
    /\ UNCHANGED <<rr_df, act_df>>
    /\ UNCHANGED <<wfVars, bdVars>>

NextPrep == PrepareUserData

(***************************************************************************)
(* Properties of prepare_user_data                                         *)
(***************************************************************************)
\* the timestamps that more than one heart-interval sample carries
SharedTimestamps ==
    {rr_df[i].timestamp : i \in {i \in 1..Len(rr_df) :
        \E j \in 1..Len(rr_df) : j # i /\ rr_df[j].timestamp = rr_df[i].timestamp}}

\* the first sample of rr_df that carries timestamp t
FirstSeen(t) ==
    rr_df[CHOOSE i \in 1..Len(rr_df) :
              /\ rr_df[i].timestamp = t
              /\ \A j \in 1..(i - 1) : rr_df[j].timestamp # t]

\* the mean, over the distinct timestamps of the second starting at g, of
\* 60 / ibi_s of the first sample of each timestamp
RECURSIVE RateSum(_, _)
RateSum(ts, acc) ==
    IF ts = {} THEN acc
    ELSE LET t == CHOOSE x \in ts : TRUE
             f == FirstSeen(t).ibi_s
         IN  RateSum(ts \ {t}, RAdd(acc, Rat(60 * f.d, f.n)))

FirstSeenRate(g) ==
    LET ts == {rr_df[i].timestamp : i \in {i \in 1..Len(rr_df) :
                   g <= rr_df[i].timestamp /\ rr_df[i].timestamp < g + 1000}}
    IN  RDivInt(RateSum(ts, Num(0)), Cardinality(ts))

MergedAt(t) == {i \in 1..Len(merged) : merged[i]["timestamp"] = t}

ActAt(t) == {i \in 1..Len(act_df) : act_df[i]["timestamp"] = t}

\* the rate the per-second series holds for the second of t uses, of the
\* samples sharing a timestamp, only the first one
UsesFirstSeen(t) ==
    \E k \in 1..Len(rr_interp) :
        /\ rr_interp[k].timestamp = (t \div 1000) * 1000
        /\ rr_interp[k].bpm = FirstSeenRate((t \div 1000) * 1000)

\* C9 as stated: for a timestamp shared by two heart-interval samples only
\* the first-seen sample is used, and the merged output holds exactly one
\* row for that timestamp.
C9_OneMergedRowPerSharedTimestamp ==
    pr_pc = "done" =>
        \A t \in SharedTimestamps :
            /\ UsesFirstSeen(t)
            /\ Cardinality(MergedAt(t)) = 1

\* C9 amended: for a timestamp shared by two heart-interval samples only the
\* first-seen sample is used, and the merged output holds one row for that
\* timestamp per activity sample carrying it: exactly one when the activity
\* stream has exactly one sample there, none when it has none.  The merge
\* keeps the activity rows, in order, and adds none; the row's rate is that
\* of the first-seen sample's second when the timestamp is a whole second,
\* absent otherwise.
C9_OneMergedRowPerActivitySample ==
    pr_pc = "done" =>
        /\ Len(merged) = Len(act_df)
        /\ \A i \in 1..Len(merged) : merged[i]["timestamp"] = act_df[i]["timestamp"]
        /\ \A t \in SharedTimestamps :
               /\ UsesFirstSeen(t)
               /\ Cardinality(MergedAt(t)) = Cardinality(ActAt(t))
               /\ \A i \in MergedAt(t) :
                      merged[i]["bpm"] =
                          (IF t % 1000 = 0 THEN FirstSeenRate(t) ELSE NaN)

C9_Witness ==
    /\ pr_pc = "done"
    /\ \E t \in SharedTimestamps :
           /\ Cardinality(ActAt(t)) = 1
           /\ \E i \in 1..Len(rr_df) :
                  /\ rr_df[i].timestamp = t
                  /\ rr_df[i].ibi_s # FirstSeen(t).ibi_s
           /\ \A i \in 1..Len(rr_df) : rr_df[i].timestamp \in {t, 3000}
           /\ \E i \in MergedAt(t) :
                  merged[i]["bpm"] = Rat(60 * FirstSeen(t).ibi_s.d, FirstSeen(t).ibi_s.n)

\* the timestamps of the heart-interval samples
RateTimestamps == {rr_df[i].timestamp : i \in 1..Len(rr_df)}

Earliest == CHOOSE x \in RateTimestamps : \A y \in RateTimestamps : x <= y

Latest == CHOOSE x \in RateTimestamps : \A y \in RateTimestamps : y <= x

\* the whole seconds in which some heart-interval sample falls
OccupiedSeconds == {t - (t % 1000) : t \in RateTimestamps}

OnGrid(t) == t % 1000 = 0

\* the rate on the straight line between the nearest occupied seconds around
\* the whole second t, t within the occupied range
LinearRate(t) ==
    LET lo == CHOOSE x \in OccupiedSeconds :
                  x <= t /\ \A y \in OccupiedSeconds : y <= t => y <= x
        hi == CHOOSE x \in OccupiedSeconds :
                  t <= x /\ \A y \in OccupiedSeconds : t <= y => x <= y
    IN  IF lo = hi THEN FirstSeenRate(lo)
        ELSE RAdd(FirstSeenRate(lo),
                  Rat(RSub(FirstSeenRate(hi), FirstSeenRate(lo)).n * ((t - lo) \div 1000),
                      RSub(FirstSeenRate(hi), FirstSeenRate(lo)).d * ((hi - lo) \div 1000)))

\* C11 as stated: every activity row is kept, and an activity timestamp
\* strictly before the earliest or strictly after the latest heart-interval
\* timestamp, or off the 1-second grid, gets an absent rate.
C11_AbsentOutsideObservedRange ==
    pr_pc = "done" =>
        /\ Len(merged) = Len(act_df)
        /\ \A i \in 1..Len(merged) :
               /\ merged[i]["timestamp"] = act_df[i]["timestamp"]
               /\ (\/ act_df[i]["timestamp"] < Earliest
                   \/ act_df[i]["timestamp"] > Latest
                   \/ ~OnGrid(act_df[i]["timestamp"]))
                  => merged[i]["bpm"].nan

\* C11 amended: every activity row is kept, in order, with its own values.
\* Its rate is absent when its timestamp is off the 1-second grid, before
\* the second in which the earliest heart-interval sample falls, or after
\* the second in which the latest one falls; otherwise it is the rate on the
\* straight line between the nearest seconds that hold a sample.  A whole
\* second that starts before the earliest sample but holds it carries that
\* second's mean rate.
C11_AbsentOutsideOccupiedSeconds ==
    pr_pc = "done" =>
        /\ Len(merged) = Len(act_df)
        /\ \A i \in 1..Len(merged) :
               /\ \A c \in DOMAIN act_df[i] : merged[i][c] = act_df[i][c]
               /\ \A t \in {act_df[i]["timestamp"]} :
                      IF \/ ~OnGrid(t)
                         \/ \A g \in OccupiedSeconds : t < g
                         \/ \A g \in OccupiedSeconds : t > g
                      THEN merged[i]["bpm"].nan
                      ELSE merged[i]["bpm"] = LinearRate(t)

\* an activity sample after the latest heart-interval sample got an absent
\* rate, and one in a gap between two occupied seconds got a rate strictly
\* between the two neighbours' rates
C11_Witness ==
    /\ pr_pc = "done"
    /\ \E i \in 1..Len(merged) :
           /\ act_df[i]["timestamp"] > Latest
           /\ merged[i]["bpm"].nan
    /\ \E i \in 1..Len(merged) :
           /\ act_df[i]["timestamp"] = 2000
           /\ OccupiedSeconds = {0, 3000}
           /\ FirstSeenRate(0) = Num(120)
           /\ FirstSeenRate(3000) = Num(80)
           /\ merged[i]["bpm"] = Rat(280, 3)

(***************************************************************************)
(* The stages build_dataset runs for a user                                *)
(***************************************************************************)
\* u has a table in all_users
Contributes(u) == TablesOf(u) # {}

\* prepare_user_data has run and produced the merged series
MergeStageRan == pr_pc = "done"

\* table k of all_users, without its labels, is window_features of the data
\* loaded for u, and its labels are those of the rows of that result
FeaturesThenLabels(u, k) ==
    \E s \in SortIndex(loaded[u].rows) :
        \E f \in {WindowFeaturesOf(loaded[u], s, u)} :
            /\ f.result = "ok"
            /\ Len(all_users[k]) = Len(f.features)
            /\ \A r \in 1..Len(f.features) :
                   /\ \A c \in DOMAIN f.features[r] : all_users[k][r][c] = f.features[r][c]
                   /\ all_users[k][r]["is_sleeping"] =
                          (/\ HasSleepFile(u)
                           /\ InSomeInterval(f.features[r]["timestamp"], sleep_file[u].rows))

\* C12 as stated: for every user that contributes rows, prepare_user_data
\* has produced the merged series, window_features was applied to that
\* merged series, and the labels were attached to the features it returned.
C12_MergeThenFeaturesThenLabels ==
    \A u \in Users :
        Contributes(u) =>
            /\ MergeStageRan
            /\ loaded[u].rows = merged
            /\ \A k \in TablesOf(u) : FeaturesThenLabels(u, k)

\* what build_dataset does run in order for a contributing user: the
\* features of the loaded data, then their labels
C12_FeaturesThenLabelsOnly ==
    \A u \in Users :
        Contributes(u) =>
            /\ ~MergeStageRan
            /\ merged = <<>>
            /\ \A k \in TablesOf(u) : FeaturesThenLabels(u, k)

(***************************************************************************)
(* Specifications                                                          *)
(***************************************************************************)
BDIdle ==
    /\ dirs = {}
    /\ pending = {}
    /\ user_count = 0
    /\ all_users = <<>>
    /\ loaded = <<>>
    /\ sleep_file = <<>>
    /\ full_df = [saved |-> FALSE, rows |-> <<>>]
    /\ bd_pc = "idle"

PRIdle ==
    /\ rr_df = <<>>
    /\ act_df = <<>>
    /\ rr_interp = <<>>
    /\ merged = <<>>
    /\ pr_pc = "idle"

InitWF == WFInit /\ BDIdle /\ PRIdle

InitBuild == WFIdle /\ BDInit /\ PRIdle

SpecBuild == InitBuild /\ [][NextBuild]_vars

InitPrep == WFIdle /\ BDIdle /\ PRInit

SpecPrep == InitPrep /\ [][NextPrep]_vars

SpecWF == InitWF /\ [][NextWF]_vars
====
